---- MODULE Spec2Model ----
(***************************************************************************)
(* Model of the notification core of src/app.py: the reminder scheduler    *)
(* (check_and_send_notifications), create_notification (durable row, then  *)
(* live push to the user's room), the Socket.IO presence rooms, the        *)
(* notification list / mark-read endpoint, the friends() route (send,      *)
(* accept, reject, remove), like_post, the comment route and the           *)
(* direct-message socket handler.                                          *)
(*                                                                         *)
(* The committed database is the state; what a handler holds between two   *)
(* of its database accesses is kept in its thread record, so that the      *)
(* interleavings of the threaded server are the interleavings of the       *)
(* actions.  Fields named call / pass / epoch and the variables calls and  *)
(* passes are history (they record which invocation produced what) and     *)
(* are never read by a modelled handler.                                   *)
(***************************************************************************)
EXTENDS Integers, Sequences, FiniteSets, TLC

\* ---------------------------------------------------------------- bounds
NumUsers    == 2   \* registered users in the request-handler specifications
MaxPasses   == 2   \* invocations of check_and_send_notifications
MaxTicks    == 1   \* hour boundaries crossed by the wall clock
MaxFailures == 1   \* store errors (a failing db.session.commit())
MaxRequests == 2   \* requests / socket events handled, possibly concurrently
MaxSessions == 2   \* Socket.IO connections opened
MaxCalls    == 1   \* direct calls of create_notification (presence specification)
MaxFriendOps == 3  \* requests to the friends() route, possibly concurrent
MaxClock    == 8   \* clock units the scheduler loop is followed for
MaxLag      == 1   \* clock units passing between two sleeps of the loop

\* ------------------------------------------------------ program constants
WaterFrom     == 8     \* water reminder window, first hour
WaterTo       == 20    \* water reminder window, last hour
BreakfastHour == 8
LunchHour     == 13
DinnerHour    == 19
WorkoutHour   == 17
SleepHour     == 22
DefaultLimit  == 20    \* request.args.get('limit', 20)

Hours    == 0..23
Users    == 1..NumUsers
Bool     == {TRUE, FALSE}
Settings == [notifications_enabled : Bool, water_reminder : Bool,
             meal_reminder : Bool, workout_reminder : Bool,
             sleep_reminder : Bool, fasting_reminder : {TRUE}]
\* the column defaults of User
DefaultSettings == [notifications_enabled |-> TRUE, water_reminder |-> TRUE,
                    meal_reminder |-> TRUE, workout_reminder |-> TRUE,
                    sleep_reminder |-> TRUE, fasting_reminder |-> TRUE]

VARIABLES
  hour,           \* datetime.utcnow().hour of the wall clock
  minute,         \* the part of the current hour that has passed, in clock units
  ticks,          \* history: hour boundaries crossed so far
  users,          \* User rows: id -> settings
  notifications,  \* Notification rows, in insertion (created_at) order
  friendships,    \* Friendship rows (a set of records)
  messages,       \* Message rows, in insertion order
  posts,          \* Post rows: id -> owner and the two counters
  likes,          \* PostLike rows (a set of records)
  comments,       \* Comment rows, in insertion order
  fasting,        \* FastingSession rows (a set of records)
  water,          \* WaterLog rows of the current day, in insertion order
  sessions,       \* connected Socket.IO sessions: sid -> authenticated user (0: anonymous)
  rooms,          \* Socket.IO rooms 'user_<id>': user id -> set of sids
  inbox,          \* events delivered to each sid ever connected
  sched,          \* the scheduler thread
  reqs,           \* request / socket-event handler threads, one record each
  passes,         \* history: one record per invocation of the evaluator
  calls,          \* history: one record per invocation of create_notification
  failures        \* store errors injected so far

vars == <<hour, minute, ticks, fasting, water, users, notifications, friendships, messages, posts,
          likes, comments, sessions, rooms, inbox, sched, reqs, passes, calls,
          failures>>

\* ---------------------------------------------------------------- helpers
RECURSIVE SortedSeq(_)
SortedSeq(S) ==
  IF S = {} THEN <<>>
  ELSE LET m == CHOOSE x \in S : \A y \in S : x <= y
       IN <<m>> \o SortedSeq(S \ {m})

NoCall == 0

\* -------------------------------------------------- create_notification
\* create_notification with the emit placed before the add + commit
CreateNotificationEmitFirst == <<"emit", "commit">>

\* The statements of create_notification after its `if user_id:` guard, in
\* program order: add + commit the row, then socketio.emit to the room.
CreateNotificationSteps == <<"commit", "emit">>

NewCall(user_id, title, message, type, by, pass) ==
  [user_id |-> user_id, title |-> title, message |-> message, type |-> type,
   by |-> by, pass |-> pass, status |-> "running",
   committed |-> FALSE, emitted |-> FALSE, audience |-> <<>>]

\* Notification(user_id=..., title=..., message=..., type=...); is_read
\* takes its column default, the id is the next rowid
NotificationRow(c) ==
  [id |-> Len(notifications) + 1, user_id |-> calls[c].user_id,
   title |-> calls[c].title, message |-> calls[c].message,
   type |-> calls[c].type, is_read |-> FALSE, call |-> c]

NotificationEvent(c) ==
  [event |-> "new_notification",
   data |-> [title |-> calls[c].title, message |-> calls[c].message,
             type |-> calls[c].type],
   call |-> c]

\* an emit without room=: every connected sid
RoomMembersBroadcast(user_id) == DOMAIN sessions

\* the sids an emit(..., room='user_<id>') reaches
RoomMembers(user_id) == IF user_id \in DOMAIN rooms THEN rooms[user_id] ELSE {}

\* socketio.emit(event, data, room=f'user_{user_id}')
EmitTo(user_id, ev) ==
  inbox' = [s \in DOMAIN inbox |->
              IF s \in RoomMembers(user_id) THEN Append(inbox[s], ev) ELSE inbox[s]]

\* step k of call c runs to completion
NotifyStepOK(c, k) ==
  IF CreateNotificationSteps[k] = "commit"
  THEN /\ notifications' = Append(notifications, NotificationRow(c))
       /\ calls' = [calls EXCEPT ![c].committed = TRUE,
                                 ![c].status = IF k = Len(CreateNotificationSteps)
                                               THEN "returned" ELSE @]
       /\ UNCHANGED inbox
  ELSE /\ EmitTo(calls[c].user_id, NotificationEvent(c))
       /\ calls' = [calls EXCEPT ![c].emitted = TRUE,
                                 ![c].audience = sessions,
                                 ![c].status = IF k = Len(CreateNotificationSteps)
                                               THEN "returned" ELSE @]
       /\ UNCHANGED notifications

\* db.session.commit() of step k raises: nothing is written, the exception
\* leaves create_notification
NotifyStepRaises(c, k) ==
  /\ CreateNotificationSteps[k] = "commit"
  /\ failures < MaxFailures
  /\ failures' = failures + 1
  /\ calls' = [calls EXCEPT ![c].status = "raised"]
  /\ UNCHANGED <<notifications, inbox>>

\* ------------------------------------------------------------ scheduler
SchedRows == <<"water", "meal", "workout", "sleep">>

\* RowFires with the water window closed one hour early (h < 20)
RowFiresEarlyClose(row, s, h) ==
  CASE row = "water"   -> s.water_reminder /\ WaterFrom <= h /\ h < WaterTo /\ h % 2 = 0
    [] row = "meal"    -> s.meal_reminder /\ h \in {BreakfastHour, LunchHour, DinnerHour}
    [] row = "workout" -> s.workout_reminder /\ h = WorkoutHour
    [] row = "sleep"   -> s.sleep_reminder /\ h = SleepHour

\* the four `if` statements of the loop body, for settings s at hour h
RowFires(row, s, h) ==
  CASE row = "water"   -> s.water_reminder /\ WaterFrom <= h /\ h <= WaterTo /\ h % 2 = 0
    [] row = "meal"    -> s.meal_reminder /\ h \in {BreakfastHour, LunchHour, DinnerHour}
    [] row = "workout" -> s.workout_reminder /\ h = WorkoutHour
    [] row = "sleep"   -> s.sleep_reminder /\ h = SleepHour

RowTitle(row, h) ==
  CASE row = "water"   -> "Time to Drink Water!"
    [] row = "meal"    -> IF h = BreakfastHour THEN "Breakfast Time!"
                          ELSE IF h = LunchHour THEN "Lunch Time!" ELSE "Dinner Time!"
    [] row = "workout" -> "Workout Time!"
    [] row = "sleep"   -> "Bedtime!"

RowMessage(row, h) ==
  CASE row = "water"   -> "Stay hydrated! Drink a glass of water."
    [] row = "meal"    -> IF h = BreakfastHour THEN "Don't forget to have your breakfast!"
                          ELSE IF h = LunchHour THEN "Time for a healthy lunch!"
                          ELSE "Don't skip dinner!"
    [] row = "workout" -> "Time for your daily workout!"
    [] row = "sleep"   -> "Time to wind down and prepare for sleep."

\* the user query without its filter
EligibleUsersUnfiltered == DOMAIN users

\* User.query.filter_by(notifications_enabled=True).all()
EligibleUsers == {u \in DOMAIN users : users[u].notifications_enabled}

SchedIdle == [pc |-> "idle", hour |-> 0, todo |-> <<>>, row |-> 1,
              pass |-> 0, call |-> NoCall, step |-> 1,
              \* run_scheduler: clock units slept in the current time.sleep,
              \* units passed since it woke, next_run of the job, jobs returned
              slept |-> 0, lag |-> 0, next_run |-> 0, jobs |-> 0]

\* the wall clock crosses an hour boundary
Tick ==
  /\ ticks < MaxTicks
  /\ hour' = (hour + 1) % 24
  /\ ticks' = ticks + 1
  /\ UNCHANGED <<minute, fasting, water, posts, likes, comments, users,
                 notifications, friendships, messages, sessions, rooms, inbox,
                 sched, reqs, passes, calls, failures>>

\* check_and_send_notifications is entered: the hour is read once and the
\* eligible users are queried; with no eligible user it returns at once
StartPass ==
  /\ sched.pc = "idle"
  /\ Len(passes) < MaxPasses
  /\ sched' = IF EligibleUsers = {} THEN sched
              ELSE [sched EXCEPT !.pc = "row", !.hour = hour,
                                 !.todo = SortedSeq(EligibleUsers), !.row = 1,
                                 !.pass = Len(passes) + 1]
  /\ passes' = Append(passes, [hour |-> hour, epoch |-> ticks,
                               eligible |-> EligibleUsers, evaluated |-> {},
                               status |-> IF EligibleUsers = {} THEN "done"
                                          ELSE "running"])
  /\ UNCHANGED <<posts, likes, comments, hour, minute, ticks, fasting, water, users, notifications, friendships, messages,
                 sessions, rooms, inbox, reqs, calls, failures>>

\* the first `if` of the loop body, from position `from` on, whose condition
\* holds for user u (0: none is left in the body)
NextFiringRow(from, u) ==
  LET F == {r \in from..Len(SchedRows) : RowFires(SchedRows[r], users[u], sched.hour)}
  IN IF F = {} THEN 0 ELSE CHOOSE r \in F : \A q \in F : r <= q

\* create_notification has returned: the scheduler goes on after the `if`
\* that made the call
SchedAdvanced == [sched EXCEPT !.pc = "row", !.row = @ + 1, !.call = NoCall, !.step = 1]

\* the loop body for the current user, up to its next create_notification
\* call or to its end; then the loop moves to the next user, or, after the
\* last one, check_and_send_notifications returns. The conditions passed
\* over read only the user's settings.
SchedRow ==
  /\ sched.pc = "row"
  /\ sched.todo # <<>>
  /\ LET u == Head(sched.todo)
         f == NextFiringRow(sched.row, u)
     IN IF f # 0 /\ u # 0
        THEN /\ calls' = Append(calls, NewCall(u, RowTitle(SchedRows[f], sched.hour),
                                   RowMessage(SchedRows[f], sched.hour),
                                   SchedRows[f], 0, sched.pass))
             /\ sched' = [sched EXCEPT !.pc = "notify", !.row = f,
                                       !.call = Len(calls) + 1, !.step = 1]
             /\ UNCHANGED passes
        ELSE /\ sched' = [sched EXCEPT !.row = 1, !.todo = Tail(@),
                                       !.pc = IF Tail(sched.todo) = <<>>
                                              THEN "idle" ELSE "row"]
             /\ passes' = [passes EXCEPT
                             ![sched.pass].evaluated = @ \cup {u},
                             ![sched.pass].status = IF Tail(sched.todo) = <<>>
                                                    THEN "done" ELSE @]
             /\ UNCHANGED calls
  /\ UNCHANGED <<posts, likes, comments, hour, minute, ticks, fasting, water, users, notifications, friendships, messages,
                 sessions, rooms, inbox, reqs, failures>>

\* the next statement of the create_notification call the scheduler is in.
\* An exception of the commit is caught nowhere in the loop, in
\* check_and_send_notifications or in run_scheduler: it ends the thread.
SchedNotifyStep ==
  /\ sched.pc = "notify"
  /\ \/ /\ NotifyStepOK(sched.call, sched.step)
        /\ IF sched.step < Len(CreateNotificationSteps)
           THEN sched' = [sched EXCEPT !.step = @ + 1]
           ELSE sched' = SchedAdvanced
        /\ UNCHANGED <<failures, passes>>
     \/ /\ NotifyStepRaises(sched.call, sched.step)
        /\ sched' = [sched EXCEPT !.pc = "dead"]
        /\ passes' = [passes EXCEPT ![sched.pass].status = "aborted"]
  /\ UNCHANGED <<posts, likes, comments, hour, minute, ticks, fasting, water, users, friendships, messages, sessions, rooms, reqs>>

\* ---------------------------------------------------------- run_scheduler
\* The wall clock in units of which UnitsPerHour make an hour: time.sleep(3600)
\* sleeps UnitsPerHour units, `every().hour` is a period of UnitsPerHour units.
UnitsPerHour == 2

\* the wall clock, in units since the hour in which the process started
Now == ticks * UnitsPerHour + minute

\* One unit of time passes. A thread in time.sleep(3600) wakes when the 3600
\* seconds are over; between waking and sleeping again (run_pending, the job
\* with its queries, commits and emits) up to MaxLag units pass.
ClockAdvance ==
  /\ Now < MaxClock
  /\ IF sched.pc = "sleep" THEN sched.slept < UnitsPerHour ELSE sched.lag < MaxLag
  /\ minute' = (minute + 1) % UnitsPerHour
  /\ hour' = IF minute + 1 = UnitsPerHour THEN (hour + 1) % 24 ELSE hour
  /\ ticks' = IF minute + 1 = UnitsPerHour THEN ticks + 1 ELSE ticks
  /\ sched' = IF sched.pc = "sleep" THEN [sched EXCEPT !.slept = @ + 1]
              ELSE [sched EXCEPT !.lag = @ + 1]
  /\ UNCHANGED <<fasting, water, posts, likes, comments, users, notifications,
                 friendships, messages, sessions, rooms, inbox, reqs, passes,
                 calls, failures>>

\* schedule.run_pending(): the job is called if its next_run has come,
\* otherwise the loop sleeps again
SchedWake ==
  /\ sched.pc = "sleep" /\ sched.slept = UnitsPerHour
  /\ sched' = IF Now >= sched.next_run
              THEN [sched EXCEPT !.pc = "idle", !.slept = 0, !.lag = 0]
              ELSE [sched EXCEPT !.slept = 0, !.lag = 0]
  /\ UNCHANGED <<hour, minute, ticks, fasting, water, posts, likes, comments,
                 users, notifications, friendships, messages, sessions, rooms,
                 inbox, reqs, passes, calls, failures>>

\* run_pending calls the job, check_and_send_notifications
SchedCallJob == Len(passes) = sched.jobs /\ StartPass

\* the job has returned: schedule sets its next_run one period from now,
\* run_pending returns and the loop calls time.sleep(3600)
SchedJobReturned ==
  /\ sched.pc = "idle" /\ Len(passes) = sched.jobs + 1
  /\ sched' = [sched EXCEPT !.pc = "sleep", !.slept = 0, !.lag = 0,
                            !.jobs = @ + 1, !.next_run = Now + UnitsPerHour]
  /\ UNCHANGED <<hour, minute, ticks, fasting, water, posts, likes, comments,
                 users, notifications, friendships, messages, sessions, rooms,
                 inbox, reqs, passes, calls, failures>>

\* The process starts at any moment of hour StartHour: run_scheduler has
\* registered the job (next_run one period ahead) and enters its loop.
StartHour == 8

InitScheduler ==
  /\ hour = StartHour
  /\ ticks = 0
  /\ minute \in 0..(UnitsPerHour - 1)
  /\ fasting = {}
  /\ water = <<>>
  /\ users = [u \in Users |-> DefaultSettings]
  /\ notifications = <<>>
  /\ friendships = {}
  /\ messages = <<>>
  /\ posts = <<>>
  /\ likes = {}
  /\ comments = <<>>
  /\ sessions = <<>>
  /\ rooms = [u \in Users |-> {}]
  /\ inbox = <<>>
  /\ sched = [SchedIdle EXCEPT !.pc = "sleep", !.slept = UnitsPerHour,
                               !.next_run = minute + UnitsPerHour]
  /\ reqs = <<>>
  /\ passes = <<>>
  /\ calls = <<>>
  /\ failures = 0

NextScheduler ==
  \/ ClockAdvance
  \/ SchedWake
  \/ SchedCallJob
  \/ SchedRow
  \/ SchedNotifyStep
  \/ SchedJobReturned

SpecScheduler == InitScheduler /\ [][NextScheduler]_vars

\* ----------------------------------------------- reminder specification
\* Two registered users with any settings, at any hour, nobody connected.
ReminderUsers == {1, 2}

InitReminder ==
  /\ hour \in Hours
  /\ ticks = 0
  /\ minute = 0
  /\ fasting = {}
  /\ water = <<>>
  /\ users \in [ReminderUsers -> Settings]
  /\ notifications = <<>>
  /\ friendships = {}
  /\ messages = <<>>
  /\ posts = <<>>
  /\ likes = {}
  /\ comments = <<>>
  /\ sessions = <<>>
  /\ rooms = [u \in ReminderUsers |-> {}]
  /\ inbox = <<>>
  /\ sched = SchedIdle
  /\ reqs = <<>>
  /\ passes = <<>>
  /\ calls = <<>>
  /\ failures = 0

NextReminder == Tick \/ StartPass \/ SchedRow \/ SchedNotifyStep

SpecReminder == InitReminder /\ [][NextReminder]_vars

\* ------------------------------------------------ reminder properties
\* rows a pass created for a user in a category
PassRows(p, u, type) ==
  {i \in DOMAIN notifications :
     /\ calls[notifications[i].call].pass = p
     /\ notifications[i].user_id = u
     /\ notifications[i].type = type}

\* the trigger table as the specification states it
TableDue(type, s, h) ==
  \/ type = "water"   /\ s.water_reminder /\ h % 2 = 0 /\ 8 <= h /\ h <= 20
  \/ type = "meal"    /\ s.meal_reminder /\ (h = 8 \/ h = 13 \/ h = 19)
  \/ type = "workout" /\ s.workout_reminder /\ h = 17
  \/ type = "sleep"   /\ s.sleep_reminder /\ h = 22

Categories == {"water", "meal", "workout", "sleep"}

\* C1: a run of check_and_send_notifications calls create_notification for,
\* and stores a row for, no user whose notifications_enabled flag is off,
\* whatever the hour and the four category toggles.
C1_MasterOffNoReminder ==
  /\ \A c \in DOMAIN calls :
       calls[c].pass # 0 => users[calls[c].user_id].notifications_enabled
  /\ \A i \in DOMAIN notifications :
       calls[notifications[i].call].pass # 0
         => users[notifications[i].user_id].notifications_enabled

\* a finished pass at 08:00 that reminded one user and skipped another whose
\* master flag is off although the water and meal toggles are on
C1_Witness ==
  \E p \in DOMAIN passes : \E u, v \in DOMAIN users :
    /\ passes[p].status = "done" /\ passes[p].hour = 8
    /\ ~users[u].notifications_enabled
    /\ users[u].water_reminder /\ users[u].meal_reminder
    /\ \A t \in Categories : PassRows(p, u, t) = {}
    /\ PassRows(p, v, "water") # {}

\* C2: for a user with the master flag on, a run at hour h creates exactly
\* one row per satisfied row of the trigger table once the user has been
\* evaluated, and never a row for an unsatisfied one (nor a second row, nor a
\* row of another category).
C2_TriggerTable ==
  /\ \A i \in DOMAIN notifications :
       LET n == notifications[i]
           p == calls[n.call].pass
       IN p # 0 =>
            /\ n.type \in Categories
            /\ users[n.user_id].notifications_enabled
            /\ TableDue(n.type, users[n.user_id], passes[p].hour)
            /\ \A j \in DOMAIN notifications :
                 (/\ calls[notifications[j].call].pass = p
                  /\ notifications[j].user_id = n.user_id
                  /\ notifications[j].type = n.type) => j = i
  /\ \A p \in DOMAIN passes :
       /\ \A u \in passes[p].evaluated : \A t \in Categories :
            (users[u].notifications_enabled /\ TableDue(t, users[u], passes[p].hour))
              => PassRows(p, u, t) # {}
       /\ passes[p].status = "done" => passes[p].evaluated = passes[p].eligible
       /\ passes[p].eligible = {u \in DOMAIN users : users[u].notifications_enabled}

\* a user evaluated at 20:00 (the last hour of the water window) who got the
\* water reminder, and one evaluated at 08:00 who got water and breakfast
C2_Witness ==
  \E p \in DOMAIN passes : \E u \in passes[p].evaluated :
    \/ /\ passes[p].hour = 20 /\ Cardinality(PassRows(p, u, "water")) = 1
       /\ PassRows(p, u, "meal") = {}
    \/ /\ passes[p].hour = 8 /\ Cardinality(PassRows(p, u, "water")) = 1
       /\ Cardinality(PassRows(p, u, "meal")) = 1
       /\ ~users[u].workout_reminder

\* C3: two runs of check_and_send_notifications within one wall-clock hour
\* do not double-fire: no user holds two reminders of the same title created
\* by runs of the same hour.
C3_NoDoubleFire ==
  \A i, j \in DOMAIN notifications :
    LET a == notifications[i]
        b == notifications[j]
    IN (/\ i # j
        /\ calls[a.call].pass # 0 /\ calls[b.call].pass # 0
        /\ a.user_id = b.user_id /\ a.title = b.title)
       => passes[calls[a.call].pass].epoch # passes[calls[b.call].pass].epoch

\* C4: a store error while notifying one user does not abort the pass: when
\* the pass is over, every other eligible user has been evaluated and holds
\* the reminders due to them.
C4_FailureIsolated ==
  \A p \in DOMAIN passes :
    passes[p].status # "running" =>
      \A u \in passes[p].eligible :
        (\A c \in DOMAIN calls :
           ~(calls[c].pass = p /\ calls[c].user_id = u /\ calls[c].status = "raised"))
        => /\ u \in passes[p].evaluated
           /\ \A t \in Categories :
                TableDue(t, users[u], passes[p].hour) => PassRows(p, u, t) # {}

\* ------------------------------------------------------------- presence
\* handle_connect: an authenticated connection joins the room of its user
\* and is sent 'connected'; an anonymous one (user 0) joins nothing
Connect(u) ==
  /\ Cardinality(DOMAIN inbox) < MaxSessions
  /\ LET sid == Cardinality(DOMAIN inbox) + 1
     IN /\ sessions' = sessions @@ (sid :> u)
        /\ IF u # 0
           THEN /\ rooms' = [rooms EXCEPT ![u] = @ \cup {sid}]
                /\ inbox' = inbox @@ (sid :> <<[event |-> "connected",
                                               data |-> [user |-> u], call |-> NoCall]>>)
           ELSE /\ rooms' = rooms
                /\ inbox' = inbox @@ (sid :> <<>>)
  /\ UNCHANGED <<posts, likes, comments, hour, minute, ticks, fasting, water, users, notifications, friendships, messages,
                 sched, reqs, passes, calls, failures>>

DisconnectKeepsRooms(sid) ==
  /\ sid \in DOMAIN sessions
  /\ sessions' = [t \in DOMAIN sessions \ {sid} |-> sessions[t]]
  /\ rooms' = rooms
  /\ UNCHANGED <<posts, likes, comments, hour, minute, ticks, fasting, water, users, notifications, friendships, messages,
                 inbox, sched, reqs, passes, calls, failures>>

\* handle_disconnect only prints; Socket.IO takes the closed sid out of the
\* rooms it had joined (none, for a session that joined no room)
Disconnect(sid) ==
  /\ sid \in DOMAIN sessions
  /\ sessions' = [t \in DOMAIN sessions \ {sid} |-> sessions[t]]
  /\ rooms' = [u \in DOMAIN rooms |-> rooms[u] \ {sid}]
  /\ UNCHANGED <<posts, likes, comments, hour, minute, ticks, fasting, water, users, notifications, friendships, messages,
                 inbox, sched, reqs, passes, calls, failures>>

\* ------------------------------------------------------ request handlers
\* A handler thread: the request (op, user = current_user, its arguments),
\* where the handler stands (pc), the create_notification call it is in,
\* and what it answered (status 0: no answer; a socket handler never answers).
NoRow == [id |-> 0, user_id |-> 0, friend_id |-> 0, status |-> ""]

ReqBase ==
  [op |-> "", user |-> 0, target |-> 0, unread_only |-> FALSE, limit |-> 0,
   nid |-> 0, mark_all |-> FALSE, pc |-> "done", call |-> NoCall, step |-> 1,
   status |-> 0, message |-> "", list |-> <<>>, unread_count |-> 0,
   logged |-> "", row |-> 0,
   fid |-> 0, seen |-> NoRow,              \* friendship id asked for, row loaded
   post |-> 0, existing_like |-> 0,        \* post id asked for, id of the like found
   count |-> 0,                            \* counter value loaded with the post
   liked |-> FALSE, likes_count |-> 0,     \* the answer of like_post
   \* history: the Friendship rows of the pair when 'send' ran its query,
   \* and the rows the handler's commit took out of / put into the table
   pre |-> {}, wrote |-> FALSE, removed |-> {}, added |-> {},
   \* history: the sessions connected when 'new_message' was emitted, and the
   \* Notification rows a PUT selected
   audience |-> <<>>, marked |-> {},
   filter |-> "",                          \* the ?status= of a friend list query
   amount |-> 0]                           \* the amount of a water log

Answer(r, status, message) ==
  [r EXCEPT !.pc = "done", !.status = status, !.message = message,
            !.call = NoCall, !.step = 1]

\* the `except Exception as e` of a route: logs and answers 500 with str(e)
Answer500(r, what) ==
  [r EXCEPT !.pc = "done", !.status = 500, !.message = what, !.logged = what,
            !.call = NoCall, !.step = 1]

\* the `except Exception as e` of handle_send_message: logs, answers nothing
LoggedOnly(r, what) ==
  [r EXCEPT !.pc = "done", !.logged = what, !.call = NoCall, !.step = 1]

\* the next rowid of a table whose rows can be deleted
NextId(S) == IF S = {} THEN 1 ELSE (CHOOSE m \in {x.id : x \in S} : \A x \in S : x.id <= m) + 1

\* --- friends(), POST, action = 'send'
\* the existing-friendship query looking in the direction of the request only
ExistingFriendshipOneWay(a, b) ==
  {f \in friendships : f.user_id = a /\ f.friend_id = b}

\* Friendship.query.filter(((user_id == a) & (friend_id == b)) |
\*                         ((user_id == b) & (friend_id == a))).first()
ExistingFriendship(a, b) ==
  {f \in friendships : \/ f.user_id = a /\ f.friend_id = b
                       \/ f.user_id = b /\ f.friend_id = a}

\* UniqueConstraint('user_id', 'friend_id'): would inserting (a, b) violate it
UniqueFriendshipViolated(a, b) ==
  \E f \in friendships : f.user_id = a /\ f.friend_id = b

\* the self test left out
SelfRequestNever(u, t) == FALSE

\* `if friend_user.id == current_user.id`
SelfRequest(u, t) == t = u

\* Friendship(user_id=current_user.id, friend_id=friend_user.id, status='pending')
\* with requester and recipient swapped
FriendRequestRowSwapped(r) ==
  [id |-> NextId(friendships), user_id |-> r.target, friend_id |-> r.user,
   status |-> "pending"]

\* Friendship(user_id=current_user.id, friend_id=friend_user.id, status='pending')
FriendRequestRow(r) ==
  [id |-> NextId(friendships), user_id |-> r.user, friend_id |-> r.target,
   status |-> "pending"]

\* the reads of the handler: the user lookup by name (target 0: no such
\* user), the self check and the existing-friendship query
SelfReferenceAnswerAsConflict(r) == Answer(r, 400, "Friendship already exists")

\* return jsonify({'success': False, 'message': 'Cannot add yourself'}), 400
SelfReferenceAnswer(r) == Answer(r, 400, "Cannot add yourself")

FriendSendCheck(u, t) ==
  /\ Len(reqs) < MaxFriendOps
  /\ LET r == [ReqBase EXCEPT !.op = "friend_send", !.user = u, !.target = t,
                              !.pre = {f \in friendships :
                                         {f.user_id, f.friend_id} = {u, t}}]
     IN reqs' = Append(reqs,
          IF t = 0 THEN Answer(r, 404, "User not found")
          ELSE IF SelfRequest(u, t) THEN SelfReferenceAnswer(r)
          ELSE IF ExistingFriendship(u, t) # {}
               THEN Answer(r, 400, "Friendship already exists")
          ELSE [r EXCEPT !.pc = "insert"])
  /\ UNCHANGED <<posts, likes, comments, hour, minute, ticks, fasting, water, users, notifications, friendships, messages,
                 sessions, rooms, inbox, sched, passes, calls, failures>>

\* db.session.add(friendship); db.session.commit(), then create_notification
\* is entered. The commit raises on the unique constraint or on a store error.
FriendSendInsert(i) ==
  /\ i \in DOMAIN reqs
  /\ reqs[i].op = "friend_send" /\ reqs[i].pc = "insert"
  /\ LET r == reqs[i]
     IN \/ /\ UniqueFriendshipViolated(r.user, r.target)
           /\ reqs' = [reqs EXCEPT ![i] = Answer500(r, "IntegrityError")]
           /\ UNCHANGED <<friendships, calls, failures>>
        \/ /\ ~UniqueFriendshipViolated(r.user, r.target)
           /\ failures < MaxFailures
           /\ failures' = failures + 1
           /\ reqs' = [reqs EXCEPT ![i] = Answer500(r, "OperationalError")]
           /\ UNCHANGED <<friendships, calls>>
        \/ /\ ~UniqueFriendshipViolated(r.user, r.target)
           /\ friendships' = friendships \cup {FriendRequestRow(r)}
           /\ calls' = Append(calls, NewCall(r.target, "New Friend Request",
                                 "sent you a friend request!", "social", i, 0))
           /\ reqs' = [reqs EXCEPT ![i] = [r EXCEPT !.pc = "notify",
                                             !.row = NextId(friendships),
                                             !.call = Len(calls) + 1, !.step = 1,
                                             !.wrote = TRUE,
                                             !.removed = friendships \ friendships',
                                             !.added = friendships' \ friendships]]
           /\ UNCHANGED failures
  /\ UNCHANGED <<posts, likes, comments, hour, minute, ticks, fasting, water, users, notifications, messages, sessions, rooms,
                 inbox, sched, passes>>

\* --- friends(), POST, action = 'accept' / 'reject'
\* Friendship.query.get(friendship_id)
FriendshipById(fid) ==
  IF \E f \in friendships : f.id = fid
  THEN CHOOSE f \in friendships : f.id = fid
  ELSE NoRow

\* `if not friendship or friendship.friend_id != current_user.id`
RespondRefused(f, u) == f = NoRow \/ f.friend_id # u

\* the row is loaded and tested. On accept the handler sets status on the
\* loaded object (a pending change of its session) and enters
\* create_notification for the requester it read; on reject it goes on to
\* delete the row.
FriendRespondCheck(u, fid, action) ==
  /\ Len(reqs) < MaxFriendOps
  /\ LET f == FriendshipById(fid)
         r == [ReqBase EXCEPT !.op = "friend_" \o action, !.user = u, !.fid = fid,
                              !.seen = f]
     IN IF RespondRefused(f, u)
        THEN /\ reqs' = Append(reqs, Answer(r, 404, "Friend request not found"))
             /\ UNCHANGED calls
        ELSE IF action = "accept"
        THEN /\ calls' = Append(calls, NewCall(f.user_id, "Friend Request Accepted",
                                   "accepted your friend request!", "social",
                                   Len(reqs) + 1, 0))
             /\ reqs' = Append(reqs, [r EXCEPT !.pc = "notify", !.target = f.user_id,
                                               !.call = Len(calls) + 1, !.step = 1])
        ELSE /\ reqs' = Append(reqs, [r EXCEPT !.pc = "delete"])
             /\ UNCHANGED calls
  /\ UNCHANGED <<posts, likes, comments, hour, minute, ticks, fasting, water, users, notifications,
                 friendships, messages, sessions, rooms, inbox, sched, passes,
                 failures>>

\* --- friends(), DELETE
\* the party test of DELETE reduced to the requester
RemoveRefusedUnlessRequester(f, u) == f = NoRow \/ f.user_id # u

\* `if not friendship or (friendship.user_id != current_user.id and
\*                        friendship.friend_id != current_user.id)`
RemoveRefused(f, u) == f = NoRow \/ (f.user_id # u /\ f.friend_id # u)

FriendRemoveCheck(u, fid) ==
  /\ Len(reqs) < MaxFriendOps
  /\ LET f == FriendshipById(fid)
         r == [ReqBase EXCEPT !.op = "friend_remove", !.user = u, !.fid = fid,
                              !.seen = f]
     IN reqs' = Append(reqs,
          IF RemoveRefused(f, u)
          THEN Answer(r, 404, "Friendship not found")
          ELSE [r EXCEPT !.pc = "delete"])
  /\ UNCHANGED <<posts, likes, comments, hour, minute, ticks, fasting, water, users, notifications,
                 friendships, messages, sessions, rooms, inbox, sched, passes,
                 calls, failures>>

\* db.session.delete(friendship); db.session.commit() of reject and of
\* DELETE: the DELETE statement names the row by its id, and a row that is
\* already gone only draws a warning
FriendDeleteCommit(i) ==
  /\ i \in DOMAIN reqs
  /\ reqs[i].pc = "delete"
  /\ LET r == reqs[i]
     IN \/ /\ friendships' = {f \in friendships : f.id # r.seen.id}
           /\ reqs' = [reqs EXCEPT ![i] =
                         Answer([r EXCEPT !.wrote = TRUE,
                                          !.removed = friendships \ friendships',
                                          !.added = friendships' \ friendships],
                                200, IF r.op = "friend_reject"
                                     THEN "Friend request rejected" ELSE "")]
           /\ UNCHANGED failures
        \/ /\ failures < MaxFailures
           /\ failures' = failures + 1
           /\ reqs' = [reqs EXCEPT ![i] = Answer500(r, "OperationalError")]
           /\ UNCHANGED friendships
  /\ UNCHANGED <<posts, likes, comments, hour, minute, ticks, fasting, water, users, notifications,
                 messages, sessions, rooms, inbox, sched, passes, calls>>

\* --- friends (GET)
\* request.args.get('status', 'accepted'): the default, and two other values
StatusFilters == {"accepted", "pending", "blocked"}

\* Friendship.query.filter((user_id == me | friend_id == me) & status == status)
FriendshipsOf(u, status) ==
  {f \in friendships : (f.user_id = u \/ f.friend_id = u) /\ f.status = status}

IsRequesterInverted(f, u) == f.friend_id = u

\* `if friendship.user_id == current_user.id`
IsRequester(f, u) == f.user_id = u

\* the entry of the answer made of row f for user u (the friend's username,
\* picture and bio go with its id)
FriendJson(f, u) ==
  [id |-> IF IsRequester(f, u) THEN f.friend_id ELSE f.user_id,
   friendship_id |-> f.id, status |-> f.status,
   is_requester |-> IsRequester(f, u)]

FriendsList(u, status) ==
  /\ Len(reqs) < MaxRequests
  /\ LET ids == SortedSeq({f.id : f \in FriendshipsOf(u, status)})
         r == [ReqBase EXCEPT !.op = "friends_list", !.user = u,
                              !.filter = status, !.pre = friendships]
     IN reqs' = Append(reqs, Answer([r EXCEPT !.list =
                  [k \in DOMAIN ids |-> FriendJson(FriendshipById(ids[k]), u)]],
                  200, ""))
  /\ UNCHANGED <<posts, likes, comments, hour, minute, ticks, fasting, water, users, notifications, friendships, messages,
                 sessions, rooms, inbox, sched, passes, calls, failures>>

\* --- handle_send_message (socket event 'send_message')
\* the payload; created_at of the row identifies it (rows are made in order)
MessageEvent(r) ==
  [event |-> "new_message",
   data |-> [sender_id |-> r.user, content |-> "content", timestamp |-> r.row],
   call |-> NoCall]

MessageRoomOfSender(r) == r.user

\* room=f'user_{receiver_id}'
MessageRoom(r) == r.target

\* Message(...); db.session.add(message); db.session.commit()
SendMessageCommit(u, t) ==
  /\ Len(reqs) < MaxRequests
  /\ LET r == [ReqBase EXCEPT !.op = "send_message", !.user = u, !.target = t]
     IN \/ /\ messages' = Append(messages,
                  [id |-> Len(messages) + 1, sender_id |-> u, receiver_id |-> t,
                   content |-> "content", is_read |-> FALSE])
           /\ reqs' = Append(reqs, [r EXCEPT !.pc = "emit_message",
                                             !.row = Len(messages) + 1])
           /\ UNCHANGED failures
        \/ /\ failures < MaxFailures
           /\ failures' = failures + 1
           /\ reqs' = Append(reqs, LoggedOnly(r, "OperationalError"))
           /\ UNCHANGED messages
  /\ UNCHANGED <<posts, likes, comments, hour, minute, ticks, fasting, water, users, notifications, friendships, sessions, rooms,
                 inbox, sched, passes, calls>>

\* emit('new_message', ..., room=f'user_{receiver_id}'), then
\* create_notification(receiver_id, ...) is entered
SendMessageEmit(i) ==
  /\ i \in DOMAIN reqs
  /\ reqs[i].op = "send_message" /\ reqs[i].pc = "emit_message"
  /\ EmitTo(MessageRoom(reqs[i]), MessageEvent(reqs[i]))
  /\ IF reqs[i].target # 0
     THEN /\ calls' = Append(calls, NewCall(reqs[i].target, "New Message",
                                "sent you a message", "social", i, 0))
          /\ reqs' = [reqs EXCEPT ![i].pc = "notify", ![i].call = Len(calls) + 1,
                                  ![i].step = 1, ![i].audience = sessions]
     ELSE /\ reqs' = [reqs EXCEPT ![i].pc = "done", ![i].audience = sessions]
          /\ UNCHANGED calls
  /\ UNCHANGED <<posts, likes, comments, hour, minute, ticks, fasting, water, users, notifications, friendships, messages,
                 sessions, rooms, sched, passes, failures>>

\* --- like_post
\* PostLike.query.filter_by(post_id=p, user_id=u).first(): the id of the
\* like found (0: none)
ExistingLike(p, u) ==
  LET L == {l \in likes : l.post_id = p /\ l.user_id = u}
  IN IF L = {} THEN 0 ELSE (CHOOSE l \in L : \A k \in L : l.id <= k.id).id

\* the counter update of like_post without the decrement of the toggle
LikesCountAfterNoDecrement(r) == r.count + 1

\* post.likes_count -= 1 / post.likes_count += 1, computed by the handler
\* from the value it loaded with the post
LikesCountAfter(r) == IF r.existing_like # 0 THEN r.count - 1 ELSE r.count + 1

\* what the commit of like_post's session writes: the like row deleted or
\* inserted, and the counter as an absolute value
LikeWrites(r) ==
  /\ likes' = IF r.existing_like # 0
              THEN {l \in likes : l.id # r.existing_like}
              ELSE likes \cup {[id |-> NextId(likes), user_id |-> r.user,
                                post_id |-> r.post]}
  /\ posts' = [posts EXCEPT ![r.post].likes_count = LikesCountAfter(r)]

\* the reads of like_post: the post and the caller's like of it. A new like
\* of somebody else's post enters create_notification with the like and the
\* counter pending in the session; every other case goes to the commit.
LikeRead(u, p) ==
  /\ Len(reqs) < MaxRequests
  /\ LET r == [ReqBase EXCEPT !.op = "like", !.user = u, !.post = p]
     IN IF p \notin DOMAIN posts
        THEN /\ reqs' = Append(reqs, Answer(r, 404, "Post not found"))
             /\ UNCHANGED calls
        ELSE LET q == [r EXCEPT !.target = posts[p].user_id,
                                !.existing_like = ExistingLike(p, u),
                                !.count = posts[p].likes_count]
             IN IF q.existing_like = 0 /\ posts[p].user_id # u
                THEN /\ calls' = Append(calls, NewCall(posts[p].user_id, "New Like",
                                           "liked your post!", "social",
                                           Len(reqs) + 1, 0))
                     /\ reqs' = Append(reqs, [q EXCEPT !.pc = "notify",
                                                       !.call = Len(calls) + 1,
                                                       !.step = 1])
                ELSE /\ reqs' = Append(reqs, [q EXCEPT !.pc = "commit"])
                     /\ UNCHANGED calls
  /\ UNCHANGED <<posts, likes, comments, hour, minute, ticks, fasting, water, users, notifications,
                 friendships, messages, sessions, rooms, inbox, sched, passes,
                 failures>>

\* db.session.commit() of like_post and the answer
LikeCommit(i) ==
  /\ i \in DOMAIN reqs
  /\ reqs[i].op = "like" /\ reqs[i].pc = "commit"
  /\ LET r == reqs[i]
     IN \/ /\ LikeWrites(r)
           /\ reqs' = [reqs EXCEPT ![i] =
                         Answer([r EXCEPT !.wrote = TRUE,
                                          !.row = IF r.existing_like = 0
                                                  THEN NextId(likes) ELSE 0,
                                          !.liked = (r.existing_like = 0),
                                          !.likes_count = posts'[r.post].likes_count],
                                200, "")]
           /\ UNCHANGED failures
        \/ /\ failures < MaxFailures
           /\ failures' = failures + 1
           /\ reqs' = [reqs EXCEPT ![i] = Answer500(r, "OperationalError")]
           /\ UNCHANGED <<posts, likes>>
  /\ UNCHANGED <<comments, hour, minute, ticks, fasting, water, users, notifications, friendships,
                 messages, sessions, rooms, inbox, sched, passes, calls>>

\* --- comments(), POST
\* the read of the handler: the post, with its comments_count
CommentRead(u, p) ==
  /\ Len(reqs) < MaxRequests
  /\ LET r == [ReqBase EXCEPT !.op = "comment", !.user = u, !.post = p]
     IN reqs' = Append(reqs,
          IF p \notin DOMAIN posts
          THEN Answer(r, 404, "Post not found")
          ELSE [r EXCEPT !.target = posts[p].user_id,
                         !.count = posts[p].comments_count, !.pc = "commit"])
  /\ UNCHANGED <<posts, likes, comments, hour, minute, ticks, fasting, water, users, notifications,
                 friendships, messages, sessions, rooms, inbox, sched, passes,
                 calls, failures>>

\* db.session.add(comment); post.comments_count += 1; db.session.commit();
\* then create_notification is entered unless the commenter owns the post
CommentCommit(i) ==
  /\ i \in DOMAIN reqs
  /\ reqs[i].op = "comment" /\ reqs[i].pc = "commit"
  /\ LET r == reqs[i]
     IN \/ /\ comments' = Append(comments, [id |-> Len(comments) + 1,
                                             user_id |-> r.user, post_id |-> r.post])
           /\ posts' = [posts EXCEPT ![r.post].comments_count = r.count + 1]
           /\ IF r.target # r.user
              THEN /\ calls' = Append(calls, NewCall(r.target, "New Comment",
                                         "commented on your post!", "social", i, 0))
                   /\ reqs' = [reqs EXCEPT ![i] =
                                 [r EXCEPT !.wrote = TRUE, !.row = Len(comments) + 1,
                                           !.pc = "notify", !.call = Len(calls) + 1,
                                           !.step = 1]]
              ELSE /\ reqs' = [reqs EXCEPT ![i] =
                                 Answer([r EXCEPT !.wrote = TRUE,
                                                  !.row = Len(comments) + 1], 200, "")]
                   /\ UNCHANGED calls
           /\ UNCHANGED failures
        \/ /\ failures < MaxFailures
           /\ failures' = failures + 1
           /\ reqs' = [reqs EXCEPT ![i] = Answer500(r, "OperationalError")]
           /\ UNCHANGED <<posts, comments, calls>>
  /\ UNCHANGED <<likes, hour, minute, ticks, fasting, water, users, notifications, friendships, messages,
                 sessions, rooms, inbox, sched, passes>>

\* --- fasting (POST)
\* FastingSession.query.filter_by(user_id=me, completed=False).first()
ActiveFast(u) == {f \in fasting : f.user_id = u /\ ~f.completed}

FastingCheck(u) ==
  /\ Len(reqs) < MaxRequests
  /\ LET r == [ReqBase EXCEPT !.op = "fasting_start", !.user = u]
     IN reqs' = Append(reqs,
          IF ActiveFast(u) # {}
          THEN Answer(r, 400, "You already have an active fasting session")
          ELSE [r EXCEPT !.pc = "insert"])
  /\ UNCHANGED <<posts, likes, comments, hour, minute, ticks, fasting, water, users, notifications, friendships, messages,
                 sessions, rooms, inbox, sched, passes, calls, failures>>

\* db.session.add(session); db.session.commit(), then
\* create_notification(current_user.id, ..., 'fasting') is entered
FastingInsert(i) ==
  /\ i \in DOMAIN reqs
  /\ reqs[i].op = "fasting_start" /\ reqs[i].pc = "insert"
  /\ \/ /\ fasting' = fasting \cup {[id |-> NextId(fasting),
                                       user_id |-> reqs[i].user,
                                       completed |-> FALSE]}
        /\ calls' = Append(calls, NewCall(reqs[i].user, "Fasting Started",
                              "Your fast has started!", "fasting", i, 0))
        /\ reqs' = [reqs EXCEPT ![i].pc = "notify", ![i].target = reqs[i].user,
                                ![i].call = Len(calls) + 1, ![i].step = 1,
                                ![i].wrote = TRUE, ![i].row = NextId(fasting)]
        /\ UNCHANGED failures
     \/ /\ failures < MaxFailures
        /\ failures' = failures + 1
        /\ reqs' = [reqs EXCEPT ![i] = Answer500(@, "OperationalError")]
        /\ UNCHANGED <<fasting, calls>>
  /\ UNCHANGED <<posts, likes, comments, hour, minute, ticks, water, users, notifications, friendships, messages,
                 sessions, rooms, inbox, sched, passes>>

\* --- hydration (POST)
Amounts == {1000, 2500}

WaterGoal == 2500

\* sum(log.amount for log in today_logs) over the user's logs of the day
RECURSIVE TodayTotal(_, _)
TodayTotal(u, k) ==
  IF k = 0 THEN 0
  ELSE TodayTotal(u, k - 1) + (IF water[k].user_id = u THEN water[k].amount ELSE 0)

\* WaterLog(user_id=me, amount=amount); db.session.add(log); db.session.commit()
HydrationCommit(u, amount) ==
  /\ Len(reqs) < MaxRequests
  /\ LET r == [ReqBase EXCEPT !.op = "hydration", !.user = u, !.amount = amount]
     IN \/ /\ water' = Append(water, [id |-> Len(water) + 1, user_id |-> u,
                                      amount |-> amount])
           /\ reqs' = Append(reqs, [r EXCEPT !.pc = "total", !.wrote = TRUE,
                                             !.row = Len(water) + 1])
           /\ UNCHANGED failures
        \/ /\ failures < MaxFailures
           /\ failures' = failures + 1
           /\ reqs' = Append(reqs, Answer500(r, "OperationalError"))
           /\ UNCHANGED water
  /\ UNCHANGED <<posts, likes, comments, hour, minute, ticks, fasting, users, notifications, friendships, messages,
                 sessions, rooms, inbox, sched, passes, calls>>

\* the day's logs are queried and summed; at 2500 or more
\* create_notification(current_user.id, ..., 'water') is entered
HydrationTotal(i) ==
  /\ i \in DOMAIN reqs
  /\ reqs[i].op = "hydration" /\ reqs[i].pc = "total"
  /\ IF TodayTotal(reqs[i].user, Len(water)) >= WaterGoal
     THEN /\ calls' = Append(calls, NewCall(reqs[i].user, "Water Goal Achieved!",
                                "You've reached your daily water goal!", "water",
                                i, 0))
          /\ reqs' = [reqs EXCEPT ![i].pc = "notify", ![i].target = reqs[i].user,
                                  ![i].call = Len(calls) + 1, ![i].step = 1]
     ELSE /\ reqs' = [reqs EXCEPT ![i] = Answer(@, 200, "")]
          /\ UNCHANGED calls
  /\ UNCHANGED <<posts, likes, comments, hour, minute, ticks, fasting, water, users, notifications, friendships, messages,
                 sessions, rooms, inbox, sched, passes, failures>>

\* --- create_notification called by any other producer (the hydration and
\* fasting routes, ...) with arguments of its choice
Payloads == {[title |-> "Hi", message |-> "Body", type |-> "social"],
             [title |-> "T", message |-> "M", type |-> "water"]}

CallCreateNotification(u, p) ==
  /\ Len(reqs) < MaxCalls
  /\ IF u # 0
     THEN /\ calls' = Append(calls, NewCall(u, p.title, p.message, p.type,
                                            Len(reqs) + 1, 0))
          /\ reqs' = Append(reqs, [ReqBase EXCEPT !.op = "notify", !.target = u,
                                     !.pc = "notify", !.call = Len(calls) + 1])
     ELSE /\ reqs' = Append(reqs, [ReqBase EXCEPT !.op = "notify", !.target = u])
          /\ UNCHANGED calls
  /\ UNCHANGED <<posts, likes, comments, hour, minute, ticks, fasting, water, users, notifications, friendships, messages,
                 sessions, rooms, inbox, sched, passes, failures>>

\* --- the create_notification call a handler is in
\* what the handler does once create_notification has returned
AfterNotify(r) ==
  IF r.op = "friend_send" THEN Answer(r, 200, "Friend request sent")
  ELSE IF r.op = "friend_accept" THEN Answer(r, 200, "Friend request accepted")
  ELSE IF r.op = "like"
       THEN Answer([r EXCEPT !.liked = TRUE,
                             !.likes_count = posts[r.post].likes_count], 200, "")
  ELSE IF r.op \in {"comment", "fasting_start", "hydration"} THEN Answer(r, 200, "")
  ELSE [r EXCEPT !.pc = "done", !.call = NoCall, !.step = 1]

\* what the handler does with an exception of create_notification
NotifyRaised(r, what) ==
  IF r.op \in {"friend_send", "friend_accept", "like", "comment",
              "fasting_start", "hydration"}
  THEN Answer500(r, what)
  ELSE IF r.op = "send_message" THEN LoggedOnly(r, what)
  ELSE [r EXCEPT !.pc = "done", !.message = what, !.call = NoCall, !.step = 1]

\* the commit inside create_notification writing only the notification
SessionFlushDropped(r) == UNCHANGED <<friendships, posts, likes>>

\* the commit inside create_notification is the commit of the handler's
\* session: it also writes what the handler changed before the call. For
\* accept that is UPDATE friendship SET status = 'accepted' WHERE id = <id>
\* (no statement if the loaded row was accepted already); for a new like it
\* is the like row and the counter.
SessionFlush(r) ==
  IF r.op = "friend_accept" /\ r.seen.status # "accepted"
  THEN /\ friendships' = {IF f.id = r.seen.id THEN [f EXCEPT !.status = "accepted"]
                           ELSE f : f \in friendships}
       /\ UNCHANGED <<posts, likes>>
  ELSE IF r.op = "like"
  THEN /\ LikeWrites(r)
       /\ UNCHANGED friendships
  ELSE UNCHANGED <<friendships, posts, likes>>

\* the UPDATE of the flush matches no row (the row was deleted since it was
\* loaded): StaleDataError
SessionStale(r) ==
  /\ r.op = "friend_accept" /\ r.seen.status # "accepted"
  /\ \A f \in friendships : f.id # r.seen.id

ReqNotifyStep(i) ==
  /\ i \in DOMAIN reqs
  /\ reqs[i].pc = "notify"
  /\ LET r == reqs[i]
         commit == CreateNotificationSteps[r.step] = "commit"
     IN \/ /\ commit => ~SessionStale(r)
           /\ NotifyStepOK(r.call, r.step)
           /\ IF commit THEN SessionFlush(r)
              ELSE UNCHANGED <<friendships, posts, likes>>
           /\ LET w == IF commit
                       THEN [r EXCEPT !.wrote = TRUE,
                                      !.row = IF r.op = "like" THEN NextId(likes)
                                              ELSE @,
                                      !.removed = @ \cup (friendships \ friendships'),
                                      !.added = @ \cup (friendships' \ friendships)]
                       ELSE r
              IN reqs' = [reqs EXCEPT ![i] =
                            IF r.step < Len(CreateNotificationSteps)
                            THEN [w EXCEPT !.step = @ + 1]
                            ELSE AfterNotify(w)]
           /\ UNCHANGED failures
        \/ /\ commit /\ SessionStale(r)
           /\ calls' = [calls EXCEPT ![r.call].status = "raised"]
           /\ reqs' = [reqs EXCEPT ![i] = NotifyRaised(r, "StaleDataError")]
           /\ UNCHANGED <<notifications, inbox, failures, friendships, posts, likes>>
        \/ /\ NotifyStepRaises(r.call, r.step)
           /\ reqs' = [reqs EXCEPT ![i] = NotifyRaised(r, "OperationalError")]
           /\ UNCHANGED <<friendships, posts, likes>>
  /\ UNCHANGED <<comments, hour, minute, ticks, fasting, water, users, messages, sessions, rooms, sched,
                 passes>>

\* --- notifications(), GET and PUT
\* the values of ?limit= tried: one below the rows a user can hold here, and
\* the default
Limits == {1, DefaultLimit}

RECURSIVE NewestFirst(_, _)
\* the rows with index in S, newest (created_at desc) first, at most k of them
NewestFirst(S, k) ==
  IF S = {} \/ k <= 0 THEN <<>>
  ELSE LET m == CHOOSE x \in S : \A y \in S : y <= x
       IN <<notifications[m]>> \o NewestFirst(S \ {m}, k - 1)

RECURSIVE OldestFirst(_, _)
OldestFirst(S, k) ==
  IF S = {} \/ k <= 0 THEN <<>>
  ELSE LET m == CHOOSE x \in S : \A y \in S : x <= y
       IN <<notifications[m]>> \o OldestFirst(S \ {m}, k - 1)

\* the list query ordered by created_at ascending
ListNotificationsOldestFirst(u, unread_only, limit) ==
  OldestFirst({i \in DOMAIN notifications :
                 /\ notifications[i].user_id = u
                 /\ unread_only => ~notifications[i].is_read}, limit)

\* Notification.query.filter_by(user_id=u)[.filter_by(is_read=False)]
\*   .order_by(Notification.created_at.desc()).limit(limit).all()
ListNotifications(u, unread_only, limit) ==
  NewestFirst({i \in DOMAIN notifications :
                 /\ notifications[i].user_id = u
                 /\ unread_only => ~notifications[i].is_read}, limit)

\* Notification.query.filter_by(user_id=u, is_read=False).count()
UnreadCount(u) ==
  Cardinality({i \in DOMAIN notifications :
                 notifications[i].user_id = u /\ ~notifications[i].is_read})

\* the dict the GET handler builds of a row
RowJson(n) == [id |-> n.id, title |-> n.title, message |-> n.message,
               type |-> n.type, is_read |-> n.is_read]

GetNotifications(u, unread_only, limit) ==
  /\ Len(reqs) < MaxRequests
  /\ LET rows == ListNotifications(u, unread_only, limit)
     IN reqs' = Append(reqs,
          [ReqBase EXCEPT !.op = "get_notifications", !.user = u,
                          !.unread_only = unread_only, !.limit = limit,
                          !.status = 200,
                          !.list = [k \in DOMAIN rows |-> RowJson(rows[k])],
                          !.unread_count = UnreadCount(u)])
  /\ UNCHANGED <<posts, likes, comments, hour, minute, ticks, fasting, water, users, notifications, friendships, messages,
                 sessions, rooms, inbox, sched, passes, calls, failures>>

RowsToMarkAnyOwner(u, nid, mark_all) ==
  IF mark_all
  THEN {i \in DOMAIN notifications : ~notifications[i].is_read}
  ELSE IF nid # 0
       THEN {i \in DOMAIN notifications : notifications[i].id = nid}
       ELSE {}

\* the rows the PUT sets is_read on: every unread row of the user (mark_all),
\* or the row of the given id if it exists and is the user's
RowsToMark(u, nid, mark_all) ==
  IF mark_all
  THEN {i \in DOMAIN notifications :
          notifications[i].user_id = u /\ ~notifications[i].is_read}
  ELSE IF nid # 0
       THEN {i \in DOMAIN notifications :
               notifications[i].id = nid /\ notifications[i].user_id = u}
       ELSE {}

MarkReadToggles(n) == [n EXCEPT !.is_read = ~@]

\* notification.is_read = True / .update({'is_read': True})
MarkRead(n) == [n EXCEPT !.is_read = TRUE]

PutNotifications(u, nid, mark_all) ==
  /\ Len(reqs) < MaxRequests
  /\ LET M == RowsToMark(u, nid, mark_all)
         r == [ReqBase EXCEPT !.op = "put_notifications", !.user = u,
                              !.nid = nid, !.mark_all = mark_all, !.marked = M]
     IN \/ /\ notifications' = [i \in DOMAIN notifications |->
                                  IF i \in M THEN MarkRead(notifications[i])
                                  ELSE notifications[i]]
           /\ reqs' = Append(reqs, Answer(r, 200, ""))
           /\ UNCHANGED failures
        \/ /\ mark_all \/ M # {}
           /\ failures < MaxFailures
           /\ failures' = failures + 1
           /\ reqs' = Append(reqs, Answer500(r, "OperationalError"))
           /\ UNCHANGED notifications
  /\ UNCHANGED <<posts, likes, comments, hour, minute, ticks, fasting, water, users, friendships, messages, sessions, rooms,
                 inbox, sched, passes, calls>>

\* --------------------------------------------- handler specifications
\* The registered users with their default settings, nobody connected, no
\* rows; the scheduler thread stays idle.
Init ==
  /\ hour = 0
  /\ ticks = 0
  /\ minute = 0
  /\ fasting = {}
  /\ water = <<>>
  /\ users = [u \in Users |-> DefaultSettings]
  /\ notifications = <<>>
  /\ friendships = {}
  /\ messages = <<>>
  /\ posts = <<>>
  /\ likes = {}
  /\ comments = <<>>
  /\ sessions = <<>>
  /\ rooms = [u \in Users |-> {}]
  /\ inbox = <<>>
  /\ sched = SchedIdle
  /\ reqs = <<>>
  /\ passes = <<>>
  /\ calls = <<>>
  /\ failures = 0

\* presence: sessions come and go while create_notification is called
Next ==
  \/ \E u \in Users \cup {0} : Connect(u)
  \/ \E sid \in DOMAIN sessions : Disconnect(sid)
  \/ \E u \in Users, p \in Payloads : CallCreateNotification(u, p)
  \/ \E i \in DOMAIN reqs : ReqNotifyStep(i)

Spec == Init /\ [][Next]_vars

\* the durable side: direct messages (each notifies its receiver), the
\* notification list and mark-read; nobody is connected
NextStore ==
  \/ \E u, t \in Users : SendMessageCommit(u, t)
  \/ \E i \in DOMAIN reqs : SendMessageEmit(i)
  \/ \E i \in DOMAIN reqs : ReqNotifyStep(i)
  \/ \E u \in Users, uo \in Bool, l \in Limits : GetNotifications(u, uo, l)
  \/ \E u \in Users, n \in 0..(Len(notifications) + 1), ma \in Bool :
       PutNotifications(u, n, ma)

SpecStore == Init /\ [][NextStore]_vars

\* concurrent friend requests
NextFriends ==
  \/ \E u \in Users, t \in Users \cup {0} : FriendSendCheck(u, t)
  \/ \E i \in DOMAIN reqs : FriendSendInsert(i)
  \/ \E i \in DOMAIN reqs : ReqNotifyStep(i)

SpecFriends == Init /\ [][NextFriends]_vars

\* the friendship life cycle: three users; the store holds no row, or a
\* request of user 1 to user 2 that is pending or accepted
LifecycleUsers == {1, 2, 3}

InitLifecycle ==
  /\ hour = 0
  /\ ticks = 0
  /\ minute = 0
  /\ fasting = {}
  /\ water = <<>>
  /\ users = [u \in LifecycleUsers |-> DefaultSettings]
  /\ notifications = <<>>
  /\ \E st \in {"none", "pending", "accepted"} :
       friendships = IF st = "none" THEN {}
                     ELSE {[id |-> 1, user_id |-> 1, friend_id |-> 2, status |-> st]}
  /\ messages = <<>>
  /\ posts = <<>>
  /\ likes = {}
  /\ comments = <<>>
  /\ sessions = <<>>
  /\ rooms = [u \in LifecycleUsers |-> {}]
  /\ inbox = <<>>
  /\ sched = SchedIdle
  /\ reqs = <<>>
  /\ passes = <<>>
  /\ calls = <<>>
  /\ failures = 0

\* the friendship ids a request can name: those in the store and the next
FriendshipIds == 1..NextId(friendships)

\* a request reaches friends() and its handler reads
FriendStart ==
  \/ \E u \in LifecycleUsers, t \in LifecycleUsers \cup {0} : FriendSendCheck(u, t)
  \/ \E u \in LifecycleUsers, fid \in FriendshipIds, action \in {"accept", "reject"} :
       FriendRespondCheck(u, fid, action)
  \/ \E u \in LifecycleUsers, fid \in FriendshipIds : FriendRemoveCheck(u, fid)

\* a handler goes on to its next database access
FriendStep ==
  \/ \E i \in DOMAIN reqs : FriendSendInsert(i)
  \/ \E i \in DOMAIN reqs : FriendDeleteCommit(i)
  \/ \E i \in DOMAIN reqs : ReqNotifyStep(i)

NextLifecycle == FriendStart \/ FriendStep

SpecLifecycle == InitLifecycle /\ [][NextLifecycle]_vars

\* the same handlers with at most MaxRequests requests
NextFriendship == (Len(reqs) < MaxRequests /\ FriendStart) \/ FriendStep

SpecFriendship == InitLifecycle /\ [][NextFriendship]_vars

\* the same, with friend list queries
NextFriendList ==
  \/ Len(reqs) < MaxRequests /\ FriendStart
  \/ \E u \in LifecycleUsers, st \in StatusFilters : FriendsList(u, st)
  \/ FriendStep

SpecFriendList == InitLifecycle /\ [][NextFriendList]_vars

\* likes, comments and direct messages on one post of user 1, which no one
\* or user 2 has liked so far
PostIds == {1, 2}

InitSocial ==
  /\ hour = 0
  /\ ticks = 0
  /\ minute = 0
  /\ fasting = {}
  /\ water = <<>>
  /\ users = [u \in Users |-> DefaultSettings]
  /\ notifications = <<>>
  /\ friendships = {}
  /\ messages = <<>>
  /\ \E n \in {0, 1} :
       /\ posts = <<[user_id |-> 1, likes_count |-> n, comments_count |-> 0]>>
       /\ likes = IF n = 0 THEN {} ELSE {[id |-> 1, user_id |-> 2, post_id |-> 1]}
  /\ comments = <<>>
  /\ sessions = <<>>
  /\ rooms = [u \in Users |-> {}]
  /\ inbox = <<>>
  /\ sched = SchedIdle
  /\ reqs = <<>>
  /\ passes = <<>>
  /\ calls = <<>>
  /\ failures = 0

\* likes and comments
NextPosts ==
  \/ \E u \in Users, p \in PostIds : LikeRead(u, p)
  \/ \E i \in DOMAIN reqs : LikeCommit(i)
  \/ \E u \in Users, p \in PostIds : CommentRead(u, p)
  \/ \E i \in DOMAIN reqs : CommentCommit(i)
  \/ \E i \in DOMAIN reqs : ReqNotifyStep(i)

SpecPosts == InitSocial /\ [][NextPosts]_vars

\* likes, comments and direct messages
NextSocial ==
  \/ NextPosts
  \/ \E u, t \in Users : SendMessageCommit(u, t)
  \/ \E i \in DOMAIN reqs : SendMessageEmit(i)

SpecSocial == InitSocial /\ [][NextSocial]_vars

\* messaging with presence: sessions connect while user 1 sends messages to
\* any user, itself included (the handler treats every sender alike)
NextMessages ==
  \/ \E u \in Users \cup {0} : Connect(u)
  \/ Len(reqs) < MaxCalls /\ \E t \in Users : SendMessageCommit(1, t)
  \/ \E i \in DOMAIN reqs : SendMessageEmit(i)
  \/ \E i \in DOMAIN reqs : ReqNotifyStep(i)

SpecMessages == Init /\ [][NextMessages]_vars

\* the inbox: users 1 and 2 each hold a notification made earlier, read or
\* not; create_notification is called and PUT requests arrive
InboxRow(id, u, read) ==
  [id |-> id, user_id |-> u, title |-> "T", message |-> "M", type |-> "general",
   is_read |-> read, call |-> NoCall]

InitInbox ==
  /\ hour = 0
  /\ ticks = 0
  /\ minute = 0
  /\ fasting = {}
  /\ water = <<>>
  /\ users = [u \in Users |-> DefaultSettings]
  /\ \E a, b \in Bool : notifications = <<InboxRow(1, 1, a), InboxRow(2, 2, b)>>
  /\ friendships = {}
  /\ messages = <<>>
  /\ posts = <<>>
  /\ likes = {}
  /\ comments = <<>>
  /\ sessions = <<>>
  /\ rooms = [u \in Users |-> {}]
  /\ inbox = <<>>
  /\ sched = SchedIdle
  /\ reqs = <<>>
  /\ passes = <<>>
  /\ calls = <<>>
  /\ failures = 0

NextInbox ==
  \/ \E u \in Users, p \in Payloads : CallCreateNotification(u, p)
  \/ \E i \in DOMAIN reqs : ReqNotifyStep(i)
  \/ \E u \in Users, n \in 0..(Len(notifications) + 1), ma \in Bool :
       PutNotifications(u, n, ma)

SpecInbox == InitInbox /\ [][NextInbox]_vars

\* fasting and hydration: each user has the column defaults, or the master
\* flag off with the toggles on, or the master flag and the toggles off
SettingsChoices ==
  {DefaultSettings,
   [DefaultSettings EXCEPT !.notifications_enabled = FALSE],
   [DefaultSettings EXCEPT !.notifications_enabled = FALSE,
                           !.water_reminder = FALSE, !.meal_reminder = FALSE,
                           !.workout_reminder = FALSE, !.sleep_reminder = FALSE]}

InitWellness ==
  /\ hour = 0
  /\ ticks = 0
  /\ minute = 0
  /\ fasting = {}
  /\ water = <<>>
  /\ users \in [Users -> SettingsChoices]
  /\ notifications = <<>>
  /\ friendships = {}
  /\ messages = <<>>
  /\ posts = <<>>
  /\ likes = {}
  /\ comments = <<>>
  /\ sessions = <<>>
  /\ rooms = [u \in Users |-> {}]
  /\ inbox = <<>>
  /\ sched = SchedIdle
  /\ reqs = <<>>
  /\ passes = <<>>
  /\ calls = <<>>
  /\ failures = 0

NextWellness ==
  \/ \E u \in Users : FastingCheck(u)
  \/ \E i \in DOMAIN reqs : FastingInsert(i)
  \/ \E u \in Users, a \in Amounts : HydrationCommit(u, a)
  \/ \E i \in DOMAIN reqs : HydrationTotal(i)
  \/ \E i \in DOMAIN reqs : ReqNotifyStep(i)

SpecWellness == InitWellness /\ [][NextWellness]_vars

\* --------------------------------------------- notification properties
\* the pushes of call c that sid s has received
PushesOf(s, c) ==
  {k \in DOMAIN inbox[s] :
     inbox[s][k].event = "new_notification" /\ inbox[s][k].call = c}

\* the committed rows of call c
RowsOf(c) == {i \in DOMAIN notifications : notifications[i].call = c}

\* C5: the row of a create_notification call is committed before its push
\* is attempted: every 'new_notification' a session has received belongs to
\* a call whose Notification row is in the store.
C5_CommitBeforePush ==
  /\ \A s \in DOMAIN inbox : \A k \in DOMAIN inbox[s] :
       inbox[s][k].event = "new_notification" =>
         \E i \in DOMAIN notifications :
           /\ notifications[i].call = inbox[s][k].call
           /\ notifications[i].title = inbox[s][k].data.title
  /\ \A c \in DOMAIN calls : calls[c].emitted => calls[c].committed

\* a connected session has received the push of a committed row
C5_Witness ==
  \E s \in DOMAIN sessions : \E c \in DOMAIN calls :
    PushesOf(s, c) # {} /\ RowsOf(c) # {}

\* C7: a create_notification(u, title, message, type) call that has returned
\* has pushed exactly one event {title, message, type} to each session of u
\* connected at the emit and none to any other session, and has added
\* exactly one row, owned by u; no call ever pushes twice to a session or
\* to a session that is not u's.
C7_FanOut ==
  \A c \in DOMAIN calls :
    LET a == calls[c].audience
        payload == [title |-> calls[c].title, message |-> calls[c].message,
                    type |-> calls[c].type]
    IN /\ \A s \in DOMAIN inbox :
            /\ \A k \in PushesOf(s, c) : inbox[s][k].data = payload
            /\ Cardinality(PushesOf(s, c)) =
                 (IF calls[c].emitted /\ s \in DOMAIN a /\ a[s] = calls[c].user_id
                  THEN 1 ELSE 0)
       /\ calls[c].status = "returned" =>
            /\ calls[c].emitted
            /\ Cardinality(RowsOf(c)) = 1
            /\ \A i \in RowsOf(c) :
                 /\ notifications[i].user_id = calls[c].user_id
                 /\ notifications[i].title = calls[c].title
                 /\ notifications[i].message = calls[c].message
                 /\ notifications[i].type = calls[c].type
       /\ Cardinality(RowsOf(c)) <= 1

\* a returned call for a user with two connected sessions: both got the push
C7_Witness ==
  \E c \in DOMAIN calls :
    /\ calls[c].status = "returned"
    /\ Cardinality({s \in DOMAIN calls[c].audience :
                      calls[c].audience[s] = calls[c].user_id}) = 2
    /\ \A s \in DOMAIN calls[c].audience : Cardinality(PushesOf(s, c)) = 1
    /\ Cardinality(RowsOf(c)) = 1

AsNewAs(i, uo) ==
  {j \in DOMAIN notifications :
     /\ j >= i
     /\ notifications[j].user_id = notifications[i].user_id
     /\ uo => ~notifications[j].is_read}

C8_DurableFailureReported ==
  \A c \in DOMAIN calls :
    /\ (calls[c].status = "raised" /\ calls[c].by # 0) =>
         (reqs[calls[c].by].pc = "done" => reqs[calls[c].by].status = 500)
    /\ calls[c].committed => RowsOf(c) # {}

\* ------------------------------------------------ friendship properties
SamePair(f, g) ==
  {f.user_id, f.friend_id} = {g.user_id, g.friend_id}

\* C9: at most one Friendship row exists for any unordered pair of users.
C9_OneRowPerPair ==
  \A f, g \in friendships : SamePair(f, g) => f = g

\* the create_notification calls request i has made
CallsBy(i) == {c \in DOMAIN calls : calls[c].by = i}

\* C11: a 'send' between two different users that runs while a Friendship
\* row of the pair exists, in either direction and whether pending or
\* accepted, is answered 400 'Friendship already exists', writes no
\* Friendship row and calls create_notification for nobody.
C11_ExistingPairConflict ==
  \A i \in DOMAIN reqs :
    LET r == reqs[i]
    IN (r.op = "friend_send" /\ r.target # 0 /\ r.target # r.user /\ r.pre # {})
       => /\ r.pc = "done" /\ r.status = 400
          /\ r.message = "Friendship already exists"
          /\ ~r.wrote /\ r.added = {} /\ r.row = 0
          /\ CallsBy(i) = {}

\* user 1's request to user 2 succeeded, then user 2's request to user 1 was
\* refused with the conflict answer
C11_Witness ==
  \E i, j \in DOMAIN reqs :
    /\ reqs[i].op = "friend_send" /\ reqs[i].status = 200
    /\ reqs[j].op = "friend_send" /\ reqs[j].status = 400
    /\ reqs[j].user = reqs[i].target /\ reqs[j].target = reqs[i].user
    /\ reqs[j].pre = reqs[i].added /\ reqs[i].added # {}
    /\ friendships = reqs[i].added

\* C12: a 'send' whose target is the sender is answered 400 'Cannot add
\* yourself', writes no Friendship row and calls create_notification for
\* nobody; no stored row has the same user on both sides.
C12_SelfRequestRefused ==
  /\ \A i \in DOMAIN reqs :
       LET r == reqs[i]
       IN (r.op = "friend_send" /\ r.target = r.user)
          => /\ r.pc = "done" /\ r.status = 400
             /\ r.message = "Cannot add yourself"
             /\ ~r.wrote /\ r.added = {} /\ CallsBy(i) = {}
  /\ \A f \in friendships : f.user_id # f.friend_id

\* a self request was refused while the table is empty
C12_Witness ==
  \E i \in DOMAIN reqs :
    /\ reqs[i].op = "friend_send" /\ reqs[i].target = reqs[i].user
    /\ reqs[i].status = 400 /\ reqs[i].pre = {} /\ friendships = {}

\* C13: a 'send' from a to b, a # b, that found no row of the pair: its
\* commit adds exactly one row (a, b, pending) and changes no other; when it
\* answers 200 it has made exactly one create_notification call, for b,
\* which stored exactly one notification, owned by b; it answers 200 unless
\* a commit raised.
C13_SendCreatesPending ==
  \A i \in DOMAIN reqs :
    LET r == reqs[i]
    IN (r.op = "friend_send" /\ r.target # 0 /\ r.target # r.user /\ r.pre = {})
       => /\ r.wrote =>
               /\ r.added = {[id |-> r.row, user_id |-> r.user,
                              friend_id |-> r.target, status |-> "pending"]}
               /\ r.removed = {}
               /\ Cardinality(CallsBy(i)) = 1
               /\ \A c \in CallsBy(i) : calls[c].user_id = r.target
          /\ ~r.wrote => CallsBy(i) = {}
          /\ (r.pc = "done" /\ r.status = 200) =>
               /\ r.wrote
               /\ \A c \in CallsBy(i) :
                    /\ Cardinality(RowsOf(c)) = 1
                    /\ \A n \in RowsOf(c) : notifications[n].user_id = r.target
          /\ (r.pc = "done" /\ r.status # 200) =>
               r.status = 500 /\ r.message \in {"OperationalError", "IntegrityError"}

\* user 1's request to user 3 was answered 200: one pending row (1, 3) and
\* one notification, for user 3
C13_Witness ==
  \E i \in DOMAIN reqs :
    /\ reqs[i].op = "friend_send" /\ reqs[i].status = 200 /\ reqs[i].pre = {}
    /\ reqs[i].user = 1 /\ reqs[i].target = 3
    /\ \E f \in friendships :
         f.user_id = 1 /\ f.friend_id = 3 /\ f.status = "pending" /\ f.id = reqs[i].row
    /\ \E c \in CallsBy(i) : \E n \in RowsOf(c) : notifications[n].user_id = 3

\* the precondition of respond: the row exists, the caller is its recipient
\* and it is pending
MayRespond(r) ==
  r.seen # NoRow /\ r.seen.friend_id = r.user /\ r.seen.status = "pending"

\* C14: an accept or reject is answered 404, writes nothing and notifies
\* nobody unless the row exists, the caller is its recipient and the row is
\* pending.
C14_RespondOnlyPending ==
  \A i \in DOMAIN reqs :
    LET r == reqs[i]
    IN (r.op \in {"friend_accept", "friend_reject"} /\ ~MayRespond(r))
       => /\ r.pc = "done" /\ r.status = 404
          /\ ~r.wrote /\ CallsBy(i) = {}

\* another request's commit accepted / deleted a row of the id request i names
AcceptedByOther(i) ==
  \E j \in DOMAIN reqs \ {i} :
    /\ reqs[j].op = "friend_accept" /\ reqs[j].wrote
    /\ \E g \in reqs[j].added : g.id = reqs[i].seen.id

DeletedByOther(i) ==
  \E j \in DOMAIN reqs \ {i} :
    /\ reqs[j].op \in {"friend_reject", "friend_remove"} /\ reqs[j].wrote
    /\ \E f \in reqs[j].removed : f.id = reqs[i].seen.id

\* C15: an accept or reject by the recipient of a row it found pending.
\* Accept: the commit writes status accepted on the row of that id and
\* nothing else (it changes no row only if another accept got there
\* first), and a request answered 200 has made exactly one
\* create_notification call, for the requester it read, which stored exactly
\* one notification. Reject: the commit deletes the row of that id (none
\* only if another request deleted it first), adds nothing, and no
\* create_notification call is made. Either answers 200 unless a commit
\* raised.
C15_RespondByRecipient ==
  \A i \in DOMAIN reqs :
    LET r == reqs[i]
    IN (r.op \in {"friend_accept", "friend_reject"} /\ MayRespond(r))
       => /\ r.op = "friend_accept" =>
               /\ Cardinality(CallsBy(i)) = 1
               /\ \A c \in CallsBy(i) : calls[c].user_id = r.seen.user_id
               /\ r.wrote =>
                    /\ \A f \in r.removed : f.id = r.seen.id
                    /\ r.added = {[f EXCEPT !.status = "accepted"] : f \in r.removed}
                    /\ r.seen \in r.removed => r.added = {[r.seen EXCEPT !.status = "accepted"]}
                    /\ r.removed = {} => AcceptedByOther(i)
               /\ (r.pc = "done" /\ r.status = 200) =>
                    /\ r.wrote
                    /\ \A c \in CallsBy(i) :
                         /\ Cardinality(RowsOf(c)) = 1
                         /\ \A n \in RowsOf(c) :
                              notifications[n].user_id = r.seen.user_id
          /\ r.op = "friend_reject" =>
               /\ CallsBy(i) = {}
               /\ r.wrote => /\ r.added = {}
                             /\ \A f \in r.removed : f.id = r.seen.id
                             /\ r.removed = {} => DeletedByOther(i)
               /\ (r.pc = "done" /\ r.status = 200) => r.wrote
          /\ (r.pc = "done" /\ r.status # 200) =>
               r.status = 500 /\ r.message \in {"OperationalError", "StaleDataError"}

\* user 2 accepted the pending request of user 1: the row is accepted and
\* user 1 holds the one notification of it
C15_Witness ==
  \E i \in DOMAIN reqs :
    /\ reqs[i].op = "friend_accept" /\ reqs[i].status = 200 /\ MayRespond(reqs[i])
    /\ reqs[i].removed = {reqs[i].seen}
    /\ friendships = {[reqs[i].seen EXCEPT !.status = "accepted"]}
    /\ Len(notifications) = 1 /\ notifications[1].user_id = reqs[i].seen.user_id

\* C16: a DELETE by the requester or the recipient of an existing row,
\* pending or accepted, deletes the row of that id (none only if another
\* request deleted it first) and answers 200 unless the commit raised; a DELETE naming no row, or made by a third user, is
\* answered 404 and writes nothing.
C16_RemoveByParty ==
  \A i \in DOMAIN reqs :
    LET r == reqs[i]
        party == r.seen # NoRow /\ r.user \in {r.seen.user_id, r.seen.friend_id}
    IN r.op = "friend_remove"
       => /\ CallsBy(i) = {}
          /\ ~party => r.pc = "done" /\ r.status = 404 /\ ~r.wrote
          /\ party =>
               /\ r.wrote => /\ r.added = {}
                             /\ \A f \in r.removed : f.id = r.seen.id
                             /\ r.removed = {} => DeletedByOther(i)
               /\ r.pc = "done" => \/ r.status = 200 /\ r.wrote
                                   \/ r.status = 500 /\ ~r.wrote
                                      /\ r.message = "OperationalError"

\* a third user's DELETE was refused, then the recipient deleted the
\* accepted row
C16_Witness ==
  \E i, j \in DOMAIN reqs :
    /\ reqs[i].op = "friend_remove" /\ reqs[i].status = 404
    /\ reqs[i].seen # NoRow /\ reqs[i].user = 3
    /\ reqs[j].op = "friend_remove" /\ reqs[j].status = 200
    /\ reqs[j].seen.status = "accepted" /\ reqs[j].user = reqs[j].seen.friend_id
    /\ reqs[j].removed = {reqs[j].seen}
    /\ friendships = {}

\* C17: every Friendship row is pending or accepted; a commit creates rows
\* only as pending; the only change a commit makes to an existing row is
\* pending to accepted, made by a request of the row's recipient; requester
\* and recipient of a row never change.
C17_Lifecycle ==
  /\ \A f \in friendships : f.status \in {"pending", "accepted"}
  /\ \A i \in DOMAIN reqs :
       LET r == reqs[i]
       IN r.wrote =>
            \A g \in r.added :
              IF \E f \in r.removed : f.id = g.id
              THEN \A f \in r.removed :
                     f.id = g.id =>
                       /\ f.user_id = g.user_id /\ f.friend_id = g.friend_id
                       /\ f.status = "pending" /\ g.status = "accepted"
                       /\ r.op = "friend_accept" /\ r.user = g.friend_id
              ELSE g.status = "pending" /\ r.op = "friend_send"

\* C10: of two 'send' requests for the same pair of users (neither hit by a
\* store error), exactly one creates the pending row and the other is
\* answered with the conflict error.
C10_RaceYieldsConflict ==
  \A i, j \in DOMAIN reqs :
    LET a == reqs[i]
        b == reqs[j]
        Conflict(r) == r.status = 400 /\ r.message = "Friendship already exists"
    IN (/\ i < j
        /\ a.op = "friend_send" /\ b.op = "friend_send"
        /\ a.pc = "done" /\ b.pc = "done"
        /\ a.target # 0 /\ a.target # a.user
        /\ {a.user, a.target} = {b.user, b.target}
        /\ a.message # "OperationalError" /\ b.message # "OperationalError")
       => \/ a.status = 200 /\ Conflict(b)
          \/ b.status = 200 /\ Conflict(a)

\* ----------------------------------------------------- social properties
\* no like request other than i and j has committed a change to post p
OnlyLikers(i, j, p) ==
  \A k \in DOMAIN reqs \ {i, j} :
    (reqs[k].op = "like" /\ reqs[k].post = p) => ~reqs[k].wrote

\* C18: a user likes a post they had not liked, then calls like again (the
\* second call finds the like of the first), no one else changing the
\* post's likes meanwhile: the post's likes_count is back at the value the
\* first call found, the second call answers liked = false with that count
\* and the like row is gone, the first call made at most one
\* create_notification call and the second none.
C18_LikeTwiceRestores ==
  \A i, j \in DOMAIN reqs :
    LET a == reqs[i]
        b == reqs[j]
    IN (/\ i < j
        /\ a.op = "like" /\ b.op = "like"
        /\ a.user = b.user /\ a.post = b.post
        /\ a.status = 200 /\ b.status = 200
        /\ a.existing_like = 0 /\ a.row # 0 /\ b.existing_like = a.row
        /\ OnlyLikers(i, j, a.post))
       => /\ posts[a.post].likes_count = a.count
          /\ a.liked /\ ~b.liked /\ b.likes_count = a.count
          /\ ExistingLike(a.post, a.user) = 0
          /\ CallsBy(j) = {}
          /\ Cardinality(CallsBy(i)) <= 1
          /\ Cardinality({n \in DOMAIN notifications :
                            notifications[n].call \in CallsBy(i) \cup CallsBy(j)}) <= 1

\* user 2 liked and then unliked the post of user 1: the counter is back,
\* no like row of user 2 is left, and user 1 holds one notification
C18_Witness ==
  \E i, j \in DOMAIN reqs :
    /\ i < j
    /\ reqs[i].op = "like" /\ reqs[j].op = "like"
    /\ reqs[i].user = 2 /\ reqs[j].user = 2 /\ reqs[i].post = 1 /\ reqs[j].post = 1
    /\ reqs[i].status = 200 /\ reqs[j].status = 200
    /\ reqs[i].liked /\ ~reqs[j].liked
    /\ reqs[j].existing_like = reqs[i].row
    /\ posts[1].likes_count = reqs[i].count
    /\ likes = {}
    /\ Len(notifications) = 1 /\ notifications[1].user_id = 1

\* C19: a post's likes_count is the number of its PostLike rows and its
\* comments_count the number of its Comment rows, in every state.
C19_CountersMatchRows ==
  \A p \in DOMAIN posts :
    /\ posts[p].likes_count = Cardinality({l \in likes : l.post_id = p})
    /\ posts[p].comments_count =
         Cardinality({c \in DOMAIN comments : comments[c].post_id = p})

\* C20: a new like, a comment or a direct message by x whose target (post
\* owner, receiver) is y makes at most one create_notification call, for y,
\* storing at most one notification, owned by y; it makes none when x = y;
\* and when x # y and the operation went through it has made exactly one,
\* which stored exactly one notification.
C20_NotifyOwnerNotSelf ==
  \A i \in DOMAIN reqs :
    LET r == reqs[i]
        fresh == r.op = "like" => r.existing_like = 0
        through == /\ r.pc = "done"
                   /\ IF r.op = "send_message" THEN r.logged = "" ELSE r.status = 200
    IN (r.op \in {"like", "comment", "send_message"} /\ r.target # 0)
       => /\ Cardinality(CallsBy(i)) <= 1
          /\ \A c \in CallsBy(i) :
               /\ calls[c].user_id = r.target
               /\ Cardinality(RowsOf(c)) <= 1
               /\ \A n \in RowsOf(c) : notifications[n].user_id = r.target
          /\ (r.user = r.target \/ ~fresh) => CallsBy(i) = {}
          /\ (through /\ fresh /\ r.user # r.target) =>
               /\ Cardinality(CallsBy(i)) = 1
               /\ \A c \in CallsBy(i) : Cardinality(RowsOf(c)) = 1
\* ------------------------------------------------- messaging properties
\* the 'new_message' events session s was sent for Message row m
MessagePushes(s, m) ==
  {k \in DOMAIN inbox[s] : /\ inbox[s][k].event = "new_message"
                            /\ inbox[s][k].data.timestamp = m}

\* the handlers of 'send_message' whose Message row was committed
StoredSends == {i \in DOMAIN reqs : reqs[i].op = "send_message" /\ reqs[i].row # 0}

\* C21: a send_message from s to r persists exactly one Message row (sender s,
\* receiver r, unread) before any push is attempted; the 'new_message' push
\* then goes once to every session of r connected at that moment and to no
\* other session; the row is persisted whether or not r has a session.
C21_MessageStoredThenPushed ==
  /\ Len(messages) = Cardinality(StoredSends)
  /\ \A i \in DOMAIN reqs : reqs[i].op = "send_message" =>
       LET r == reqs[i] IN
       /\ r.row = 0 => r.pc = "done" /\ r.logged # ""
       /\ r.row # 0 =>
            /\ r.row \in DOMAIN messages
            /\ messages[r.row] = [id |-> r.row, sender_id |-> r.user,
                                  receiver_id |-> r.target, content |-> "content",
                                  is_read |-> FALSE]
            /\ \A j \in StoredSends : j # i => reqs[j].row # r.row
            /\ \A s \in DOMAIN inbox :
                 Cardinality(MessagePushes(s, r.row)) =
                   IF /\ r.pc # "emit_message"
                      /\ s \in DOMAIN r.audience
                      /\ r.audience[s] = r.target
                   THEN 1 ELSE 0
  /\ \A s \in DOMAIN inbox : \A k \in DOMAIN inbox[s] :
       inbox[s][k].event = "new_message" =>
         inbox[s][k].data.timestamp \in {reqs[i].row : i \in StoredSends}

\* a message was pushed to the receiver's session while the sender's own
\* session, connected at the same moment, got nothing
C21_Witness ==
  \E i \in StoredSends : \E s, t \in DOMAIN reqs[i].audience :
    /\ reqs[i].pc = "done" /\ reqs[i].user # reqs[i].target
    /\ reqs[i].audience[s] = reqs[i].target
    /\ reqs[i].audience[t] = reqs[i].user
    /\ MessagePushes(s, reqs[i].row) # {}
    /\ MessagePushes(t, reqs[i].row) = {}

\* ----------------------------------------------------- inbox properties
\* the PUT answered in this step (0: the step is no PUT)
PutAnswered ==
  IF /\ Len(reqs') = Len(reqs) + 1
     /\ reqs'[Len(reqs')].op = "put_notifications"
     /\ reqs'[Len(reqs')].status = 200
  THEN Len(reqs') ELSE 0

\* C22: no step deletes a Notification row or changes its owner, title, body
\* or category; the only change to a stored row is its read flag going from
\* unread to read, made by a PUT; a PUT on rows already read changes nothing,
\* and no step turns a read row unread.
C22_NotificationFrame ==
  [][/\ Len(notifications') >= Len(notifications)
     /\ \A i \in DOMAIN notifications :
          /\ [notifications'[i] EXCEPT !.is_read = notifications[i].is_read]
               = notifications[i]
          /\ notifications[i].is_read => notifications'[i].is_read
          /\ notifications'[i] # notifications[i] => PutAnswered # 0
     /\ (/\ PutAnswered # 0
         /\ \A i \in reqs'[PutAnswered].marked : notifications[i].is_read)
        => notifications' = notifications]_vars

\* the same row was marked read twice, by id
C22_Witness ==
  \E i, j \in DOMAIN reqs :
    /\ i < j
    /\ reqs[i].op = "put_notifications" /\ reqs[j].op = "put_notifications"
    /\ reqs[i].status = 200 /\ reqs[j].status = 200
    /\ ~reqs[j].mark_all /\ reqs[j].marked # {}
    /\ reqs[j].marked \subseteq reqs[i].marked
    /\ \A n \in reqs[j].marked : notifications[n].is_read

\* C28: a row's read flag is changed only by a PUT of the row's owner that
\* names the row or marks all: a PUT by user u with the id of another user's
\* notification leaves that row as it was, and mark-all by u changes rows
\* of u only.
C28_MarkOnlyOwn ==
  [][\A i \in DOMAIN notifications :
       notifications'[i] # notifications[i] =>
         /\ PutAnswered # 0
         /\ reqs'[PutAnswered].user = notifications[i].user_id
         /\ reqs'[PutAnswered].mark_all \/ reqs'[PutAnswered].nid = notifications[i].id]_vars

\* user u named the unread row of another user, and marked all, both
\* answered 200, and the other user's row is still unread
C28_Witness ==
  \E i, j \in DOMAIN reqs : \E n \in DOMAIN notifications :
    /\ reqs[i].op = "put_notifications" /\ reqs[j].op = "put_notifications"
    /\ reqs[i].status = 200 /\ reqs[j].status = 200
    /\ reqs[i].user = reqs[j].user
    /\ ~reqs[i].mark_all /\ reqs[i].nid = notifications[n].id
    /\ reqs[j].mark_all /\ reqs[j].marked # {}
    /\ notifications[n].user_id # reqs[i].user
    /\ ~notifications[n].is_read

\* -------------------------------------------------- presence properties
\* the sids that were connected and are closed
ClosedSessions == DOMAIN inbox \ DOMAIN sessions

\* C23: a closed session is in no room and has been pushed nothing emitted
\* after it closed; closing a session that joined no room changes no room;
\* the room of a user holds exactly the user's sessions still connected, and
\* each of them has received every push emitted to the user while it was
\* connected.
C23_ClosedSessionGetsNothing ==
  /\ \A u \in DOMAIN rooms :
       rooms[u] = {s \in DOMAIN sessions : sessions[s] = u}
  /\ \A s \in ClosedSessions : \A c \in DOMAIN calls :
       PushesOf(s, c) # {} => s \in DOMAIN calls[c].audience
  /\ \A s \in DOMAIN sessions : \A c \in DOMAIN calls :
       (/\ calls[c].emitted
        /\ s \in DOMAIN calls[c].audience
        /\ sessions[s] = calls[c].user_id) => PushesOf(s, c) # {}

\* of two sessions of a user one closed; a notification emitted afterwards
\* reached the other one only
C23_Witness ==
  \E c \in DOMAIN calls : \E s \in ClosedSessions : \E t \in DOMAIN sessions :
    /\ calls[c].emitted
    /\ inbox[s] # <<>> /\ inbox[s][1].data.user = calls[c].user_id
    /\ sessions[t] = calls[c].user_id
    /\ s \notin DOMAIN calls[c].audience
    /\ PushesOf(s, c) = {} /\ PushesOf(t, c) # {}

\* ------------------------------------------------ friend list properties
\* C24: the friend list of user u for status s has one entry for each
\* Friendship row in which u is requester or recipient and whose status is
\* s, and no other entry; the entry names the other party of the row as the
\* friend, and its is_requester is true exactly when u is the requester.
C24_FriendList ==
  \A i \in DOMAIN reqs : reqs[i].op = "friends_list" =>
    LET r == reqs[i]
        rows == {f \in r.pre : /\ f.user_id = r.user \/ f.friend_id = r.user
                               /\ f.status = r.filter}
    IN /\ r.status = 200
       /\ Len(r.list) = Cardinality(rows)
       /\ {r.list[k].friendship_id : k \in DOMAIN r.list} = {f.id : f \in rows}
       /\ \A k \in DOMAIN r.list : \E f \in rows :
            /\ f.id = r.list[k].friendship_id
            /\ r.list[k].status = r.filter
            /\ r.list[k].is_requester = (f.user_id = r.user)
            /\ r.list[k].id # r.user
            /\ r.list[k].id \in {f.user_id, f.friend_id}

\* a list with two entries: a request the user sent and one it received
C24_Witness ==
  \E i \in DOMAIN reqs :
    /\ reqs[i].op = "friends_list"
    /\ \E k, l \in DOMAIN reqs[i].list :
         reqs[i].list[k].is_requester /\ ~reqs[i].list[l].is_requester

\* ---------------------------------------------- failure-kind properties
\* the failure condition a friendship request met, by its inputs and the
\* rows it loaded ("none": it met none of the three)
FailureCondition(r) ==
  IF r.op = "friend_send"
  THEN IF r.target = 0 THEN "not_found"
       ELSE IF r.target = r.user THEN "self_reference"
       ELSE IF r.pre # {} THEN "conflict"
       ELSE "none"
  ELSE IF r.op \in {"friend_accept", "friend_reject"}
  THEN IF r.seen = NoRow \/ r.seen.friend_id # r.user THEN "not_found" ELSE "none"
  ELSE IF r.op = "friend_remove"
  THEN IF r.seen = NoRow \/ r.user \notin {r.seen.user_id, r.seen.friend_id}
       THEN "not_found" ELSE "none"
  ELSE "none"

\* the failure kind the caller reads off the answer: its HTTP status and
\* its message
ReportedKind(r) ==
  IF r.status = 404 /\ r.message \in {"User not found", "Friend request not found",
                                      "Friendship not found"}
  THEN "not_found"
  ELSE IF r.status = 400 /\ r.message = "Friendship already exists" THEN "conflict"
  ELSE IF r.status = 400 /\ r.message = "Cannot add yourself" THEN "self_reference"
  ELSE "none"

\* C25: a friendship request that meets 'not found', 'conflict' or
\* 'self-reference' is answered with a failure from which the caller reads
\* that very condition: the answers (status and message) of two requests
\* that met different conditions are never the same.
C25_FailuresDistinct ==
  /\ \A i \in DOMAIN reqs :
       FailureCondition(reqs[i]) # "none" =>
         /\ reqs[i].pc = "done" /\ reqs[i].status \in {400, 404}
         /\ ReportedKind(reqs[i]) = FailureCondition(reqs[i])
  /\ \A i, j \in DOMAIN reqs :
       (/\ FailureCondition(reqs[i]) # "none"
        /\ FailureCondition(reqs[j]) # "none"
        /\ FailureCondition(reqs[i]) # FailureCondition(reqs[j]))
       => <<reqs[i].status, reqs[i].message>> # <<reqs[j].status, reqs[j].message>>

\* a conflict and a self-reference, both answered with status 400
C25_Witness ==
  \E i, j \in DOMAIN reqs :
    /\ FailureCondition(reqs[i]) = "conflict"
    /\ FailureCondition(reqs[j]) = "self_reference"
    /\ reqs[i].status = reqs[j].status
    /\ reqs[i].message # reqs[j].message

\* ------------------------------------------------- master flag property
\* C26: no Notification row is owned by a user whose master flag
\* notifications_enabled is off, whatever operation would have made it and
\* whatever the user's category toggles are.
C26_MasterOffNoNotification ==
  \A i \in DOMAIN notifications :
    users[notifications[i].user_id].notifications_enabled

\* ----------------------------------------------------- hourly property
\* the hours, counted from the start of the process, that were evaluated
EvaluatedEpochs == {passes[p].epoch : p \in DOMAIN passes}

\* a reminder of the trigger table is due to some user in hour number e
DueInEpoch(e) ==
  \E u \in DOMAIN users : \E t \in Categories :
    TableDue(t, users[u], (StartHour + e) % 24)

\* C27: run_scheduler evaluates once per wall-clock hour: no two evaluations
\* fall in the same hour, and between two evaluated hours no hour in which
\* a reminder is due is left out.
C27_OncePerHour ==
  /\ \A p, q \in DOMAIN passes : p # q => passes[p].epoch # passes[q].epoch
  /\ \A a, b \in EvaluatedEpochs : \A e \in a..b :
       DueInEpoch(e) => e \in EvaluatedEpochs

\* ------------------------------------------------------ like uniqueness
\* C29: at most one PostLike row exists for any (user, post) pair, in every
\* state, whatever the interleaving of like requests.
C29_OneLikePerUserAndPost ==
  \A l, k \in likes :
    (l.user_id = k.user_id /\ l.post_id = k.post_id) => l = k

\* ---------------------------------------------------- failure atomicity
\* C30: a request that answered with a failure has written nothing: no row
\* it added or removed and no counter it changed is in the store.
C30_FailureWritesNothing ==
  \A i \in DOMAIN reqs :
    (reqs[i].pc = "done" /\ reqs[i].status \in {400, 404, 500})
    => /\ ~reqs[i].wrote
       /\ reqs[i].added = {} /\ reqs[i].removed = {}
       /\ \A c \in CallsBy(i) : ~calls[c].committed

====
